---- MODULE Spec2Model ----
(***************************************************************************)
(* Subscription state of the warrior-built backend.                        *)
(*                                                                         *)
(* Two datastores exist in the repository: the SQLite table `users`        *)
(* (src/db.js, used by src/server.js, src/routes.js and the webhook server *)
(* src/unnamed/part_000) and the Firestore documents                       *)
(* artifacts/{appId}/users/{userId}/subscriptions/status (src/index.js,    *)
(* src/functions/index.js, which is the same handler code deployed as a    *)
(* cloud function).  A deployment talks to one of them; `backend` says     *)
(* which.                                                                  *)
(*                                                                         *)
(* JavaScript / JSON values are modelled as strings ("true", "false",      *)
(* "undefined", ...), SQLite column values as "0", "1" and "NULL".         *)
(***************************************************************************)
EXTENDS Integers, FiniteSets, Sequences, TLC

\* ------------------------------------------------------------------ bounds
MaxClock    == 1      \* server clock readings 0..MaxClock
MaxPending  == 2      \* statements queued on the sqlite connection, not yet run
MaxInflight == 1      \* webhook requests awaiting the Firestore write

UserIds    == {"u1", "u2"}
AppIds     == {"a1"}
Emails     == {"a@b.com"}
SessionIds == {"cs_1", "cs_2"}
EventTypes == {"checkout.session.completed", "payment_intent.succeeded"}

Undefined == "undefined"     \* a JavaScript value that is absent
SqlNull   == "NULL"
NoApp     == "-"             \* the sqlite variants have no tenant
NoUser    == "-"             \* a webhook request, or a request refused or failed
                             \* before the store reached a row
Received  == "{received:true}"

\* what db.run / db.get hand to the callback as `err`: the storage failing (outage),
\* the constraint the statement violates, or null
StorageFailure    == "SQLITE_IOERR"
ConstraintFailure == "SQLITE_CONSTRAINT"
NoError           == "-"

VARIABLES
    backend,          \* "sqlite" | "firestore"
    hosted,           \* whether the app runs under functions.https.onRequest (which
                      \* sets req.rawBody before the app sees the request) or app.listen
    stripe,           \* index.js: whether the global `stripe` was initialised
    users,            \* sqlite table users: id -> [email, isSubscribed]
    docs,             \* firestore: <<appId, userId>> -> document (a partial record)
    pendingUpdates,   \* part_000: UPDATEs handed to db.run whose callback has not run
    pendingInserts,   \* server.js: lookups that saw no row and have the INSERT to run
    inflight,         \* index.js: webhook requests awaiting subscriptionDocRef.set
    now,              \* Firestore server clock
    last,             \* the step just taken: the request as received and its answer
    justCreated,      \* history: users whose row was last written by createUser
    processed,        \* history: users whose row the UPDATE of a completion event changed
                      \* and no client update (routes.js) has overwritten since
    provisioned       \* history: users whose row was written by the lookup's INSERT only

vars == << backend, hosted, stripe, users, docs, pendingUpdates, pendingInserts,
           inflight, now, last, justCreated, processed, provisioned >>

\* The record of a step: the answer it sends (status 0: none yet), what it writes to
\* the console and, for a webhook step, how constructEvent ended.  A webhook step is
\* not recorded against its payload: the claims about particular payloads quantify
\* over the payloads of the action instead.
NotRun   == "-"              \* the step did not call constructEvent
Returned == "returned"       \* constructEvent returned the event
Threw    == "threw"          \* constructEvent threw

Step(op, u, a, status, body, log) ==
    [op |-> op, user |-> u, app |-> a, status |-> status, body |-> body, log |-> log,
     verified |-> NotRun]

WebhookStep(status, body, log, v) ==
    [Step("webhook", NoUser, NoApp, status, body, log) EXCEPT !.verified = v]

Answer(op, u, status, body) ==
    Step(op, u, NoApp, status, body, NoError)

\* ----------------------------------------------------------- pure helpers

\* `!x` of JavaScript for the request fields used here
Falsy(x) == x = Undefined

\* node-sqlite3 binds a JS boolean as an integer and undefined as NULL
BindParam(v) ==
    CASE v = "true"  -> "1"
      [] v = "false" -> "0"
      [] OTHER       -> SqlNull

\* Boolean(row.isSubscribed)
Boolean(v) == IF v = "1" THEN "true" ELSE "false"

\* res.json({ isSubscribed: row.isSubscribed }): the column as stored
RawJson(v) == IF v = SqlNull THEN "null" ELSE v

\* a column the INSERT does not name gets the schema's default
ColumnDefault == "0"

EmptyTable == [u \in {} |-> SqlNull]

Row(email, isSubscribed) == [email |-> email, isSubscribed |-> isSubscribed]

Put(tbl, id, row) ==
    [u \in (DOMAIN tbl) \cup {id} |-> IF u = id THEN row ELSE tbl[u]]

\* mutant: the upsert keeping the flag of the row it replaces
InsertOrReplaceKeepFlag(tbl, id, email) ==
    Put(tbl, id, Row(email, IF id \in DOMAIN tbl THEN tbl[id].isSubscribed
                            ELSE BindParam("false")))
\* mutant: the upsert binding true for isSubscribed
InsertOrReplaceSubscribed(tbl, id, email) == Put(tbl, id, Row(email, BindParam("true")))
\* INSERT OR REPLACE INTO users (id, email, isSubscribed) VALUES (?, ?, false)
InsertOrReplace(tbl, id, email) == Put(tbl, id, Row(email, BindParam("false")))

\* INSERT INTO users (id, isSubscribed) VALUES (?, false)
InsertDefault(tbl, id) == Put(tbl, id, Row(SqlNull, BindParam("false")))

\* INSERT INTO users (id, email) VALUES (?, ?)
InsertUser(tbl, id, email) == Put(tbl, id, Row(email, ColumnDefault))

\* users.id is the table's primary key: a plain INSERT of an existing id fails
PrimaryKeyConflict(tbl, id) == id \in DOMAIN tbl

\* what db.run hands to the callback as `err` for this INSERT
InsertError(outage, tbl, id) ==
    IF outage THEN StorageFailure
    ELSE IF PrimaryKeyConflict(tbl, id) THEN ConstraintFailure
    ELSE NoError

\* this.changes of an UPDATE ... WHERE id = ?
Changes(tbl, id) == IF id \in DOMAIN tbl THEN 1 ELSE 0

SetIsSubscribed(tbl, id, v) ==
    [u \in DOMAIN tbl |-> IF u = id THEN [tbl[u] EXCEPT !.isSubscribed = v] ELSE tbl[u]]

\* routes.js: UPDATE users SET isSubscribed = ? WHERE id = ?   [isSubscribed, userId]
RouterUpdate(tbl, id, v) == SetIsSubscribed(tbl, id, BindParam(v))

\* mutants: the UPDATE written as an upsert; the UPDATE binding false
MarkSubscribedSqlInsert(tbl, id) == Put(tbl, id, Row(SqlNull, BindParam("true")))
MarkSubscribedSqlOff(tbl, id) == SetIsSubscribed(tbl, id, BindParam("false"))
\* part_000: UPDATE users SET isSubscribed = ? WHERE id = ?    [true, userId]
MarkSubscribedSql(tbl, id) == SetIsSubscribed(tbl, id, BindParam("true"))


\* ------------------------------------------------------ firestore helpers

Completed == "checkout.session.completed"

\* the object handed to subscriptionDocRef.set
PaymentFields(sid, t) ==
    [isSubscribed |-> TRUE, paymentStatus |-> "paid",
     lastPaymentDate |-> t, stripeSessionId |-> sid]

\* { merge: true }: the fields given replace the document's, the others stay
Merge(old, new) ==
    [f \in (DOMAIN old) \cup (DOMAIN new) |-> IF f \in DOMAIN new THEN new[f] ELSE old[f]]

SetDoc(d, k, doc) ==
    [x \in (DOMAIN d) \cup {k} |-> IF x = k THEN doc ELSE d[x]]

\* mutant: set() called without { merge: true }
MarkSubscribedDocOverwrite(d, k, sid, t) == SetDoc(d, k, PaymentFields(sid, t))
\* subscriptionDocRef.set({...}, { merge: true }): creates the document when absent
MarkSubscribedDoc(d, k, sid, t) ==
    SetDoc(d, k, IF k \in DOMAIN d THEN Merge(d[k], PaymentFields(sid, t))
                                   ELSE PaymentFields(sid, t))

\* ------------------------------------------------- webhook request body

RawBytes == "raw bytes"      \* the request body as Stripe sent and signed it

\* the middleware a POST /stripe-webhook passes before the handler, in order
Middleware == << "cors", "json", "raw" >>

\* the request as the app receives it: under functions.https.onRequest the host has
\* read and parsed the body and kept the bytes in req.rawBody; under app.listen the
\* body is still on the stream and req.rawBody is not set
Arrive(underHost) ==
    IF underHost
    THEN [stream |-> "consumed", body |-> "parsed", rawBody |-> RawBytes]
    ELSE [stream |-> "unread", body |-> Undefined, rawBody |-> Undefined]

\* body-parser: a parser skips a request whose body is already parsed; json() reads the
\* stream and sets req.body to the parsed object, raw() sets it to the bytes; neither
\* sets req.rawBody
ApplyMiddleware(mw, req) ==
    CASE mw = "json" -> IF req.body # Undefined THEN req
                        ELSE [req EXCEPT !.stream = "consumed", !.body = "parsed"]
      [] mw = "raw"  -> IF req.body # Undefined THEN req
                        ELSE [req EXCEPT !.stream = "consumed", !.body = RawBytes]
      [] OTHER       -> req

RECURSIVE RunMiddleware(_, _)
RunMiddleware(mws, req) ==
    IF mws = << >> THEN req
    ELSE RunMiddleware(Tail(mws), ApplyMiddleware(Head(mws), req))

\* stripe.webhooks.constructEvent(payload, sig, secret): returns the event (TRUE) when
\* the signature header signs the payload it is given, throws (FALSE) otherwise;
\* `signed` says whether the header signs the bytes that were sent
ConstructEvent(payload, signed) == signed /\ payload = RawBytes

\* --------------------------------------------------- webhook control flow

\* mutants: the handler without the constructEvent try/catch; without the metadata guard
WebhookOutcomeNoVerify(stripeOk, sigValid, type, userId, appId) ==
    IF ~stripeOk THEN "unavailable"
    ELSE IF type # Completed THEN "ignored"
    ELSE IF Falsy(userId) \/ Falsy(appId) THEN "aborted"
    ELSE "mark"
WebhookOutcomeNoGuard(stripeOk, sigValid, type, userId, appId) ==
    IF ~stripeOk THEN "unavailable"
    ELSE IF ~sigValid THEN "rejected"
    ELSE IF type # Completed THEN "ignored"
    ELSE "mark"
\* index.js: app.post("/stripe-webhook") down to the call of set()
WebhookOutcome(stripeOk, sigValid, type, userId, appId) ==
    IF ~stripeOk THEN "unavailable"
    ELSE IF ~sigValid THEN "rejected"
    ELSE IF type # Completed THEN "ignored"
    ELSE IF Falsy(userId) \/ Falsy(appId) THEN "aborted"
    ELSE "mark"

\* part_000: app.post("/stripe-webhook") down to the call of db.run
SqliteWebhookOutcome(sigValid, type, userId) ==
    IF ~sigValid THEN "rejected"
    ELSE IF type # Completed THEN "ignored"
    ELSE IF Falsy(userId) THEN "aborted"
    ELSE "mark"

WebhookStatus(o) ==
    CASE o = "unavailable" -> 500
      [] o = "rejected"    -> 400
      [] OTHER             -> 200

WebhookBody(o) ==
    CASE o = "unavailable" -> "Stripe service is not available."
      [] o = "rejected"    -> "Webhook Error"
      [] OTHER             -> Received

\* the line the route and handleCheckoutSessionCompleted write to the console
WebhookLog(o) ==
    CASE o = "unavailable" -> "Stripe not initialized"
      [] o = "rejected"    -> "Webhook Error"
      [] o = "ignored"     -> "Unhandled event type"
      [] o = "aborted"     -> "userId or appId not found in session metadata"
      [] OTHER             -> "Checkout session completed"

\* mutant: the catch around set() answering with a server error
AckStatusFailOnError(ok) == IF ok THEN 200 ELSE 500
\* index.js: the catch around set() only logs; res.json({received: true}) follows
AckStatus(ok) == 200


\* ------------------------------------------------------------------ state

IdValues  == UserIds \cup {Undefined}      \* what a request can carry as an id
AppValues == AppIds \cup {Undefined}
DocKeys   == AppIds \X UserIds

\* documents other clients of the store left there before the server started
InitDocs == {[email |-> e, isSubscribed |-> FALSE] : e \in Emails}

Init ==
    /\ backend \in {"sqlite", "firestore"}
    /\ hosted \in BOOLEAN     \* the handlers read req.rawBody, which only a host sets
    /\ stripe \in (IF backend = "firestore" THEN BOOLEAN ELSE {TRUE})
    /\ users = EmptyTable
    /\ \E S \in SUBSET DocKeys :
          /\ backend = "sqlite" => S = {}
          /\ docs \in [S -> InitDocs]
    /\ pendingUpdates = [u \in IdValues |-> 0]
    /\ pendingInserts = [u \in IdValues |-> 0]
    /\ inflight = {}
    /\ now = 0
    /\ last = Answer("start", NoUser, 0, "-")
    /\ justCreated = {}
    /\ processed = {}
    /\ provisioned = {}

RECURSIVE Total(_, _)
Total(f, S) == IF S = {} THEN 0 ELSE LET x == CHOOSE y \in S : TRUE IN f[x] + Total(f, S \ {x})

\* statements handed to the sqlite connection and not yet run
Queued == Total(pendingUpdates, IdValues) + Total(pendingInserts, IdValues)

IsUnsubscribedRow(tbl, u) == u \in DOMAIN tbl /\ Boolean(tbl[u].isSubscribed) = "false"

\* ------------------------------------------------- server.js (sqlite, REST)

\* GET /api/users/:userId/subscription: the SELECT and its callback
GetSubscription(u) ==
    /\ backend = "sqlite"
    /\ \E err \in BOOLEAN :
          IF err
          THEN /\ last' = Step("getStatus", NoUser, NoApp, 500, "Database error",
                               StorageFailure)
               /\ UNCHANGED pendingInserts
          ELSE IF u \in DOMAIN users
          THEN /\ last' = Answer("getStatus", u, 200, Boolean(users[u].isSubscribed))
               /\ UNCHANGED pendingInserts
          ELSE /\ Queued < MaxPending
               /\ pendingInserts' = [pendingInserts EXCEPT ![u] = @ + 1]
               /\ last' = Answer("getStatus", u, 0, "-")
    /\ UNCHANGED << backend, hosted, processed, stripe, users, docs, pendingUpdates,
                    inflight, now, justCreated, provisioned >>

\* ... and the INSERT that the callback issues when no row was found
AutoProvisionInsert(u) ==
    /\ backend = "sqlite"
    /\ pendingInserts[u] > 0
    /\ pendingInserts' = [pendingInserts EXCEPT ![u] = @ - 1]
    /\ \E outage \in BOOLEAN :
          LET insertErr == InsertError(outage, users, u) IN
          IF insertErr # NoError
          THEN /\ last' = Step("autoProvision", IF outage THEN NoUser ELSE u, NoApp, 500,
                               "Database error", insertErr)
               /\ UNCHANGED << users, provisioned >>
          ELSE /\ users' = InsertDefault(users, u)
               /\ provisioned' = provisioned \cup {u}
               /\ last' = Answer("autoProvision", u, 200, "false")
    /\ UNCHANGED << backend, hosted, processed, stripe, docs, pendingUpdates, inflight,
                    now, justCreated >>

\* POST /api/users
CreateUser(id, email) ==
    /\ backend = "sqlite"
    /\ IF Falsy(id) \/ Falsy(email)
       THEN /\ last' = Answer("createUser", NoUser, 400, "User ID and email are required")
            /\ UNCHANGED << users, justCreated, provisioned >>
       ELSE \E err \in BOOLEAN :
            IF err
            THEN /\ last' = Step("createUser", NoUser, NoApp, 500, "Database error",
                                 StorageFailure)
                 /\ UNCHANGED << users, justCreated, provisioned >>
            ELSE /\ users' = InsertOrReplace(users, id, email)
                 /\ justCreated' = justCreated \cup {id}
                 /\ provisioned' = provisioned \ {id}
                 /\ last' = Answer("createUser", id, 200, "User created successfully")
    /\ UNCHANGED << backend, hosted, processed, stripe, docs, pendingUpdates,
                    pendingInserts, inflight, now >>

\* ------------------------------------------------- routes.js (sqlite, REST)

\* GET /users/:id/subscription
RouterGetSubscription(u) ==
    /\ backend = "sqlite"
    /\ \E err \in BOOLEAN :
          last' = IF err THEN Step("router.getStatus", NoUser, NoApp, 500,
                                   "Database error", StorageFailure)
                  ELSE IF u \in DOMAIN users
                  THEN Answer("router.getStatus", u, 200, RawJson(users[u].isSubscribed))
                  ELSE Answer("router.getStatus", u, 404, "User not found")
    /\ UNCHANGED << backend, hosted, processed, stripe, users, docs, pendingUpdates,
                    pendingInserts, inflight, now, justCreated, provisioned >>

\* POST /users/:id/subscription
RouterUpdateSubscription(u, v) ==
    /\ backend = "sqlite"
    /\ \E err \in BOOLEAN :
          IF err
          THEN /\ last' = Step("router.update", NoUser, NoApp, 500, "Database error",
                               StorageFailure)
               /\ UNCHANGED << users, justCreated, processed, provisioned >>
          ELSE IF Changes(users, u) > 0
          THEN /\ users' = RouterUpdate(users, u, v)
               /\ justCreated' = justCreated \ {u}
               /\ processed' = processed \ {u}
               /\ provisioned' = provisioned \ {u}
               /\ last' = Answer("router.update", u, 200, v)
          ELSE /\ last' = Answer("router.update", u, 404, "User not found")
               /\ UNCHANGED << users, justCreated, processed, provisioned >>
    /\ UNCHANGED << backend, hosted, stripe, docs, pendingUpdates, pendingInserts,
                    inflight, now >>

\* POST /users
RouterCreateUser(id, email) ==
    /\ backend = "sqlite"
    /\ \E outage \in BOOLEAN :
          LET err == InsertError(outage, users, id) IN
          IF err # NoError
          THEN /\ last' = Step("router.createUser", IF outage THEN NoUser ELSE id, NoApp,
                               500, "Database error", err)
               /\ UNCHANGED << users, justCreated >>
          ELSE /\ users' = InsertUser(users, id, IF email = Undefined THEN SqlNull ELSE email)
               /\ justCreated' = justCreated \cup {id}
               /\ last' = Answer("router.createUser", id, 200, "User created successfully")
    /\ UNCHANGED << backend, hosted, processed, stripe, docs, pendingUpdates,
                    pendingInserts, inflight, now, provisioned >>

\* --------------------------------------------- part_000 (sqlite, webhook)

\* POST /stripe-webhook: db.run is handed the UPDATE and is not awaited, so the
\* answer is sent in the same step and the UPDATE runs later
SqliteWebhook(sig, type, userId) ==
    /\ backend = "sqlite"
    /\ LET req == RunMiddleware(Middleware, Arrive(hosted))
           ok  == ConstructEvent(req.rawBody, sig)
           o   == SqliteWebhookOutcome(ok, type, userId) IN
         /\ last' = WebhookStep(WebhookStatus(o), WebhookBody(o), WebhookLog(o),
                                IF ok THEN Returned ELSE Threw)
         /\ IF o = "mark"
            THEN /\ Queued < MaxPending
                 /\ pendingUpdates' = [pendingUpdates EXCEPT ![userId] = @ + 1]
                 /\ justCreated' = justCreated \ {userId}
            ELSE UNCHANGED << pendingUpdates, justCreated >>
    /\ UNCHANGED << backend, hosted, processed, stripe, users, docs, pendingInserts,
                    inflight, now, provisioned >>

\* the UPDATE runs and its callback logs the outcome
DbUpdateRun(u) ==
    /\ backend = "sqlite"
    /\ pendingUpdates[u] > 0
    /\ pendingUpdates' = [pendingUpdates EXCEPT ![u] = @ - 1]
    /\ \E err \in BOOLEAN :
          IF err
          THEN /\ last' = Step("dbUpdate", u, NoApp, 0, "-", "error")
               /\ UNCHANGED << users, justCreated, processed, provisioned >>
          ELSE /\ users' = MarkSubscribedSql(users, u)
               /\ justCreated' = justCreated \ {u}
               /\ provisioned' = provisioned \ {u}
               /\ processed' = IF Changes(users, u) > 0 THEN processed \cup {u}
                                ELSE processed
               /\ last' = Step("dbUpdate", u, NoApp, 0, "-",
                               IF Changes(users, u) > 0 THEN "updated" ELSE "not found")
    /\ UNCHANGED << backend, hosted, stripe, docs, pendingInserts, inflight, now >>

\* ------------------------------------------- index.js (firestore, webhook)

\* POST /stripe-webhook up to `await subscriptionDocRef.set(...)`
StripeWebhook(sig, type, userId, appId, sid) ==
    /\ backend = "firestore"
    /\ LET req == RunMiddleware(Middleware, Arrive(hosted))
           ok  == ConstructEvent(req.rawBody, sig)
           v   == IF ~stripe THEN NotRun ELSE IF ok THEN Returned ELSE Threw
           o   == WebhookOutcome(stripe, ok, type, userId, appId)
           r   == [app |-> appId, user |-> userId, sid |-> sid] IN
         IF o = "mark"
         THEN /\ last' = WebhookStep(0, "-", WebhookLog(o), v)
              /\ Cardinality(inflight) < MaxInflight
              /\ r \notin inflight
              /\ inflight' = inflight \cup {r}
         ELSE /\ last' = WebhookStep(WebhookStatus(o), WebhookBody(o), WebhookLog(o), v)
              /\ UNCHANGED inflight
    /\ UNCHANGED << backend, hosted, processed, stripe, users, docs, pendingUpdates,
                    pendingInserts, now, justCreated, provisioned >>

\* set() settles (written, or rejected and logged) and the handler answers
FirestoreSetDone(r) ==
    /\ backend = "firestore"
    /\ r \in inflight
    /\ inflight' = inflight \ {r}
    /\ \E ok \in BOOLEAN :
          /\ docs' = IF ok THEN MarkSubscribedDoc(docs, <<r.app, r.user>>, r.sid, now)
                           ELSE docs
          /\ last' = Step("fsSet", r.user, r.app, AckStatus(ok), Received,
                          IF ok THEN "updated" ELSE "error")
    /\ UNCHANGED << backend, hosted, processed, stripe, users, pendingUpdates,
                    pendingInserts, now, justCreated, provisioned >>

\* FieldValue.serverTimestamp(): the server's clock moves on between writes
Tick ==
    /\ backend = "firestore"
    /\ now < MaxClock
    /\ now' = now + 1
    /\ last' = Answer("tick", NoUser, 0, "-")
    /\ UNCHANGED << backend, hosted, processed, stripe, users, docs, pendingUpdates,
                    pendingInserts, inflight, justCreated, provisioned >>

\* ---------------------------------------------------------- specification

Lookup        == \E u \in UserIds : GetSubscription(u)
Provision     == \E u \in UserIds : AutoProvisionInsert(u)
Create        == \E id \in IdValues, email \in Emails \cup {Undefined} : CreateUser(id, email)
RouterLookup  == \E u \in UserIds : RouterGetSubscription(u)
RouterSet     == \E u \in UserIds, v \in {"true", "false"} :
                     RouterUpdateSubscription(u, v)
RouterCreate  == \E id \in UserIds, email \in Emails \cup {Undefined} :
                     RouterCreateUser(id, email)
WebhookSqlite == \E sig \in BOOLEAN, type \in EventTypes, u \in IdValues :
                     SqliteWebhook(sig, type, u)
UpdateRuns    == \E u \in IdValues : DbUpdateRun(u)
WebhookStripe == \E sig \in BOOLEAN, type \in EventTypes, u \in IdValues,
                    a \in AppValues, sid \in SessionIds :
                     StripeWebhook(sig, type, u, a, sid)
SetSettles    == \E r \in inflight : FirestoreSetDone(r)

Next ==
    \/ Lookup
    \/ Provision
    \/ Create
    \/ RouterLookup
    \/ RouterSet
    \/ RouterCreate
    \/ WebhookSqlite
    \/ UpdateRuns
    \/ WebhookStripe
    \/ SetSettles
    \/ Tick

Spec == Init /\ [][Next]_vars

\* the promise returned by set() settles: the Firestore client resolves or rejects it
Reqs == [app : AppIds, user : UserIds, sid : SessionIds]
FairSpec == Spec /\ \A r \in Reqs : WF_vars(FirestoreSetDone(r))


\* ----------------------------------------------------------------- claims

IsSubscribedRow(tbl, u) == u \in DOMAIN tbl /\ tbl[u].isSubscribed = "1"
IsSubscribedDoc(d, k)   == k \in DOMAIN d /\ d[k].isSubscribed

\* nothing stored changes and no write is scheduled
NoStoreEffect ==
    /\ users' = users
    /\ docs' = docs
    /\ pendingUpdates' = pendingUpdates
    /\ inflight' = inflight

Acknowledged == last'.status = 200 /\ last'.body = Received

\* the in-flight webhook request(s) whose Firestore write settles in this step
Settled == inflight \ inflight'

PaymentFieldNames == {"isSubscribed", "paymentStatus", "lastPaymentDate", "stripeSessionId"}

\* the step handles a webhook request on which constructEvent ran and threw / returned
\* the event, for some payload (type, userId, appId, session)
\* what the handler hands to constructEvent
HandedToConstructEvent == RunMiddleware(Middleware, Arrive(hosted)).rawBody

\* the step handles a webhook request on which constructEvent threw / returned the event
FailedVerificationStep == last'.op = "webhook" /\ last'.verified = Threw
VerifiedEventStep      == last'.op = "webhook" /\ last'.verified = Returned

\* the step handles a verified checkout-completed event whose metadata lacks an id
MissingIdStep ==
    /\ VerifiedEventStep
    /\ \/ SqliteWebhook(TRUE, Completed, Undefined)
       \/ \E u \in IdValues, a \in AppValues, sid \in SessionIds :
             (Falsy(u) \/ Falsy(a)) /\ StripeWebhook(TRUE, Completed, u, a, sid)

\* the step is the sqlite handler answering a verified completion event for user u
SqliteCompletionStep(u) ==
    VerifiedEventStep /\ SqliteWebhook(TRUE, Completed, u)

\* C1: a step that handles a webhook request whose signature verification fails,
\* whatever type, userId, appId and session its payload claims, answers with status
\* 400, changes no stored record and schedules no write on one.
C1_BadSignatureChangesNothing ==
    [][ FailedVerificationStep => (last'.status = 400 /\ NoStoreEffect) ]_vars

\* a webhook request has just been rejected while an unsubscribed record exists that a
\* forged completion event could have named
C1_Witness ==
    /\ last.op = "webhook" /\ last.verified = Threw /\ last.status = 400
    /\ \/ \E u \in UserIds : IsUnsubscribedRow(users, u)
       \/ \E k \in DOMAIN docs : ~docs[k].isSubscribed

C3_Original ==
    [][ /\ \A u \in UserIds : IsSubscribedRow(users, u) => IsSubscribedRow(users', u)
        /\ \A k \in DocKeys : IsSubscribedDoc(docs, k) => IsSubscribedDoc(docs', k) ]_vars

\* C4 as stated: a record's isSubscribed becomes true only in a step in which the
\* payment-completion handler applies the write of a verified completion event.
C4_Original ==
    [][ /\ \A u \in UserIds :
              (IsSubscribedRow(users', u) /\ ~IsSubscribedRow(users, u)) =>
                  (last'.op = "dbUpdate" /\ last'.user = u)
        /\ \A k \in DocKeys :
              (IsSubscribedDoc(docs', k) /\ ~IsSubscribedDoc(docs, k)) =>
                  (last'.op = "fsSet" /\ <<last'.app, last'.user>> = k) ]_vars

\* C5: a status lookup (GET /api/users/:userId/subscription) of a user whose row was
\* last written by a successful createUser, with no completion event and no other
\* write for that user since, answers isSubscribed = false whenever it answers with a
\* status.
C5_CreatedReadsUnsubscribed ==
    [][ (last'.op = "getStatus" /\ last'.user \in justCreated /\ last'.status = 200)
            => last'.body = "false" ]_vars

C5_Witness ==
    /\ last.op = "getStatus" /\ last.user \in justCreated
    /\ last.status = 200 /\ last.body = "false"

\* C6: a step that handles a verified checkout-completed event whose metadata lacks
\* userId (or appId, in the Firestore handler) answers 200 {received: true}, changes
\* no stored record and schedules no write.
C6_MissingIdAcknowledgedNoWrite ==
    [][ MissingIdStep => (Acknowledged /\ NoStoreEffect) ]_vars

C6_Witness ==
    /\ last.op = "webhook"
    /\ last.log = "userId or appId not found in session metadata"
    /\ last.status = 200 /\ last.body = Received

C8_VerifiedEventAcknowledged ==
    /\ [][ /\ VerifiedEventStep =>
                 \/ Acknowledged
                 \/ /\ last'.status = 0
                    /\ inflight \subseteq inflight'
                    /\ Cardinality(inflight' \ inflight) = 1
           /\ \A r \in Settled :
                 /\ last'.op = "fsSet" /\ last'.app = r.app /\ last'.user = r.user
                 /\ Acknowledged ]_vars
    /\ \A r \in Reqs : (r \in inflight) ~> (r \notin inflight)

\* the Firestore write failed and the event was acknowledged all the same
C8_Witness ==
    /\ last.op = "fsSet" /\ last.log = "error"
    /\ last.status = 200 /\ last.body = Received

C10_OnlyPaymentFieldsChange ==
    [][ /\ last'.op = "webhook" => (users' = users /\ docs' = docs)
        /\ last'.op = "dbUpdate" =>
              /\ DOMAIN users' = DOMAIN users
              /\ \A u \in DOMAIN users :
                    /\ users'[u].email = users[u].email
                    /\ u # last'.user => users'[u] = users[u]
        /\ \A r \in Settled :
              last'.op = "fsSet" =>
                  /\ DOMAIN docs' \subseteq (DOMAIN docs) \cup {<<r.app, r.user>>}
                  /\ \A k \in DOMAIN docs :
                        /\ k \in DOMAIN docs'
                        /\ k # <<r.app, r.user>> => docs'[k] = docs[k]
                        /\ \A f \in (DOMAIN docs[k]) \ PaymentFieldNames :
                              f \in DOMAIN docs'[k] /\ docs'[k][f] = docs[k][f]
                        /\ DOMAIN docs'[k] \subseteq (DOMAIN docs[k]) \cup PaymentFieldNames ]_vars

\* a document that carries an email has just been marked subscribed, while another
\* document exists beside it
C10_Witness ==
    /\ last.op = "fsSet" /\ last.log = "updated"
    /\ IsSubscribedDoc(docs, <<last.app, last.user>>)
    /\ "email" \in DOMAIN docs[<<last.app, last.user>>]
    /\ \E k \in DOMAIN docs : k # <<last.app, last.user>>

\* C11 as stated: createUser for a key that already has a record, called with the
\* fields the endpoint requires and with the storage available, succeeds and leaves
\* the record of that key in place.  (The table is keyed by users.id, its primary key,
\* so a state holds at most one row per key; the statements decide what happens when
\* a second row for a key is offered.)
C11_Original ==
    [][ \A u \in UserIds :
          (/\ u \in DOMAIN users
           /\ last'.op \in {"createUser", "router.createUser"} /\ last'.user = u
           /\ last'.status # 400
           /\ last'.log # StorageFailure)
             => (last'.status = 200 /\ u \in DOMAIN users') ]_vars

\* a JSON body parser reads the webhook request's body off the stream while
\* req.rawBody holds no copy of it
ParsedBeforeCapture ==
    \E i \in 1..Len(Middleware) :
        LET before == RunMiddleware(SubSeq(Middleware, 1, i - 1), Arrive(hosted))
            after  == ApplyMiddleware(Middleware[i], before) IN
        /\ Middleware[i] = "json"
        /\ before.stream = "unread" /\ after.stream = "consumed"
        /\ before.rawBody # RawBytes

\* C12 as stated: when a webhook request has reached signature verification, what the
\* handler handed to constructEvent is the raw request body, and no JSON body parser
\* consumed the body before the raw body was captured.
C12_Original ==
    (last.op = "webhook" /\ last.verified # NotRun)
        => (HandedToConstructEvent = RawBytes /\ ~ParsedBeforeCapture)

C14_Original ==
    [][ \A u \in UserIds :
          (/\ last'.op = "autoProvision" /\ last'.user = u
           /\ last'.log # StorageFailure
           /\ u \notin DOMAIN users \/ u \in provisioned)
             => (/\ last'.status = 200 /\ last'.body = "false"
                 /\ u \in DOMAIN users') ]_vars

====
